---- MODULE Spec2Model ----
(***************************************************************************)
(* Cart reconciliation of the EVOQUE storefront                            *)
(* (src/frontend/src/context/shopContext.tsx, ShopContextProvider).        *)
(*                                                                         *)
(* State: the provider's React state (token, csrfToken, products,          *)
(* cartItem), the tinybase table 'cart' (store), the server-held cart      *)
(* (remote) and the responses still on their way to the client (inflight). *)
(* storeFrom records who wrote the table last: the guest route, a response *)
(* of the server, or nobody since it was cleared.                          *)
(***************************************************************************)
EXTENDS Integers, Sequences, FiniteSets, TLC

VARIABLES token, csrfToken, products, store, cartItem, remote, inflight, storeFrom,
          collection, cookies, localStorage

vars == <<token, csrfToken, products, store, cartItem, remote, inflight, storeFrom,
          collection, cookies, localStorage>>

(* ---------------------------- bounds ----------------------------------- *)
\* largest total quantity (over all its lines) a cart is allowed to reach in the model
MaxQty == 2
\* largest number of responses in flight at once
MaxInflight == 1
\* in the guest-only runs: how far above the stock and below zero quantities are followed
GuestSlack == 2
\* in the runs with concurrent mutations: largest total quantity of a cart, and
\* largest number of responses in flight at once
RaceQty == 1
MaxRace == 2
\* in the runs about the cart total: largest quantity of a line
MaxAmountQty == 2

(* ---------------------------- catalog ---------------------------------- *)
NULL == "null"
\* a || b
Or(a, b) == IF a = NULL THEN b ELSE a

\* the server's product list: one product, X, with sizes M and L and stock 5
Catalog == {"X"}
\* the product list of the runs about the cart total: A at price 100 and B at price 50,
\* with the sizes and the stock of X
Priced == {"A", "B"}
Sizes(p) == IF p \in Catalog \cup Priced THEN {"M", "L"} ELSE {}
Stock(p) == IF p \in Catalog \cup Priced THEN 5 ELSE 0
Price(p) == IF p = "A" THEN 100 ELSE IF p = "B" THEN 50 ELSE 10

\* arguments the presentation layer passes in the model: every valid line of X with a
\* quantity up to MaxQty, and one call each with an unknown product ("Z"), a size X
\* does not have ("XL") and a quantity above the stock
BadInputs == {<<"Z", "M", 1>>, <<"X", "XL", 1>>, <<"X", "M", Stock("X") + 1>>}
AddInputs == {<<"X", s, q>> : s \in Sizes("X"), q \in 1..MaxQty} \cup BadInputs
UpdateInputs == {<<"X", s, q>> : s \in Sizes("X"), q \in 0..MaxQty} \cup BadInputs
RemoveInputs == {<<"X", s>> : s \in Sizes("X")} \cup {<<"Z", "M">>, <<"X", "XL">>}
QtyRange == 0..MaxQty

\* every (productId, size) pair, in the order the server lists cart lines
AllLines == << <<"X", "M">>, <<"X", "L">> >>

(* ---------------------------- carts ------------------------------------ *)
\* CartData: productId -> (size -> quantity)
EmptyCart == [p \in {} |-> [s \in {} |-> 0]]
EmptyItem == [s \in {} |-> 0]

HasLine(cart, p, s) == p \in DOMAIN cart /\ s \in DOMAIN cart[p]

\* cart[p][s] || 0
Qty(cart, p, s) == IF HasLine(cart, p, s) THEN cart[p][s] ELSE 0

LinesOf(cart) == UNION {{<<p, s>> : s \in DOMAIN cart[p]} : p \in DOMAIN cart}

\* if (!c[p]) c[p] = {};  c[p][s] = q
SetLine(cart, p, s, q) ==
  [x \in DOMAIN cart \cup {p} |->
     IF x = p
     THEN [y \in (IF p \in DOMAIN cart THEN DOMAIN cart[p] ELSE {}) \cup {s} |->
             IF y = s THEN q ELSE cart[p][y]]
     ELSE cart[x]]

\* if (!c[p]) c[p] = {};
TouchEntry(cart, p) ==
  IF p \in DOMAIN cart THEN cart
  ELSE [x \in DOMAIN cart \cup {p} |-> IF x = p THEN EmptyItem ELSE cart[x]]

\* if (c[p]) { delete c[p][s]; if (Object.keys(c[p]).length === 0) delete c[p]; }
DelLine(cart, p, s) ==
  IF p \in DOMAIN cart
  THEN IF DOMAIN cart[p] \ {s} = {}
       THEN [x \in DOMAIN cart \ {p} |-> cart[x]]
       ELSE [x \in DOMAIN cart |->
               IF x = p THEN [y \in DOMAIN cart[p] \ {s} |-> cart[p][y]] ELSE cart[x]]
  ELSE cart

\* for (const [p, sizes] of Object.entries(obj)) { c[p] = {}; for (...) c[p][s] = q; }
FromObject(obj) == [p \in DOMAIN obj |-> [s \in DOMAIN obj[p] |-> obj[p][s]]]

\* an array-shaped cart: the lines of a cart as a sequence of {productId, size, quantity}
RECURSIVE ToArrayFrom(_, _)
ToArrayFrom(cart, i) ==
  IF i > Len(AllLines) THEN <<>>
  ELSE LET p == AllLines[i][1]
           s == AllLines[i][2]
       IN (IF HasLine(cart, p, s)
           THEN <<[productId |-> p, size |-> s, quantity |-> cart[p][s]]>>
           ELSE <<>>) \o ToArrayFrom(cart, i + 1)

ToArray(cart) == ToArrayFrom(cart, 1)

\* Object.entries of an array: the keys are the indices "0", "1", ...
ArrayKey(i) == CASE i = 1 -> "0" [] i = 2 -> "1" [] i = 3 -> "2" [] OTHER -> "3"
EntriesOfArray(arr) ==
  [k \in {ArrayKey(i) : i \in 1..Len(arr)} |->
     arr[CHOOSE i \in 1..Len(arr) : ArrayKey(i) = k]]

\* forEach(item => { if (!c[item.productId]) c[item.productId] = {};
\*                   if (item.quantity > 0) c[item.productId][item.size] = item.quantity; })
RECURSIVE FromArrayPositive(_, _)
FromArrayPositive(arr, acc) ==
  IF arr = <<>> THEN acc
  ELSE LET item == Head(arr)
       IN FromArrayPositive(Tail(arr),
            IF item.quantity > 0
            THEN SetLine(acc, item.productId, item.size, item.quantity)
            ELSE TouchEntry(acc, item.productId))

\* forEach(item => { if (!c[item.productId]) c[item.productId] = {};
\*                   c[item.productId][item.size] = item.quantity; })
RECURSIVE FromArrayAll(_, _)
FromArrayAll(arr, acc) ==
  IF arr = <<>> THEN acc
  ELSE LET item == Head(arr)
       IN FromArrayAll(Tail(arr), SetLine(acc, item.productId, item.size, item.quantity))

(* ---------------------- validation (client) ---------------------------- *)
\* variant of ValidateAdd that looks at the stock before the size
ValidateAddStockFirst(prods, p, s, q) ==
  IF p \notin prods THEN "Product not found"
  ELSE IF Stock(p) < q THEN "Insufficient stock"
  ELSE IF s \notin Sizes(p) THEN "Invalid size"
  ELSE "ok"

\* addCartItem: products.find, sizes.includes, stock < quantity
ValidateAdd(prods, p, s, q) ==
  IF p \notin prods THEN "Product not found"
  ELSE IF s \notin Sizes(p) THEN "Invalid size"
  ELSE IF Stock(p) < q THEN "Insufficient stock"
  ELSE "ok"

\* updateCartItem: the stock check applies only when quantity > 0
ValidateUpdate(prods, p, s, q) ==
  IF p \notin prods THEN "Product not found"
  ELSE IF s \notin Sizes(p) THEN "Invalid size"
  ELSE IF q > 0 /\ Stock(p) < q THEN "Insufficient stock"
  ELSE "ok"

\* removeCartItem: no stock check
ValidateRemove(prods, p, s) ==
  IF p \notin prods THEN "Product not found"
  ELSE IF s \notin Sizes(p) THEN "Invalid size"
  ELSE "ok"

\* variant of Authenticated that does not look at the CSRF token
AuthenticatedByTokenOnly(tok, csrf) == tok # NULL

\* if (isAuthenticated && token && csrfToken)
Authenticated(tok, csrf) == tok # NULL /\ csrf # NULL

(* ---------------------- guest route (local store) ---------------------- *)
\* variant of GuestAdd that replaces the quantity of the line
GuestAddReplacing(cart, p, s, q) == SetLine(cart, p, s, q)

\* newCart[p][s] = (newCart[p][s] || 0) + quantity
GuestAdd(cart, p, s, q) == SetLine(cart, p, s, Qty(cart, p, s) + q)

\* quantity <= 0: delete the line and an emptied entry; else set the line
GuestUpdate(cart, p, s, q) ==
  IF q <= 0 THEN DelLine(cart, p, s) ELSE SetLine(cart, p, s, q)

\* removeCartItem, guest branch: only acts when the product has an entry
GuestRemoveFound(cart, p) == p \in DOMAIN cart
GuestRemove(cart, p, s) == DelLine(cart, p, s)

(* ---------------------- remote cart service (server) ------------------- *)
\* add: server-side increment
ServerAdd(r, p, s, q) == SetLine(r, p, s, Qty(r, p, s) + q)
\* update: set the line; quantity <= 0 is a removal
ServerUpdate(r, p, s, q) == IF q <= 0 THEN DelLine(r, p, s) ELSE SetLine(r, p, s, q)
\* remove: delete the line
ServerRemove(r, p, s) == DelLine(r, p, s)
\* merge: additive by quantity
ServerMerge(r, local) ==
  [p \in DOMAIN r \cup DOMAIN local |->
     [s \in (IF p \in DOMAIN r THEN DOMAIN r[p] ELSE {})
            \cup (IF p \in DOMAIN local THEN DOMAIN local[p] ELSE {}) |->
        Qty(r, p, s) + Qty(local, p, s)]]

\* the cart lies in the modelled range: no negative line, total quantity at most MaxQty
RECURSIVE CartTotalFrom(_, _)
CartTotalFrom(c, i) ==
  IF i > Len(AllLines) THEN 0
  ELSE Qty(c, AllLines[i][1], AllLines[i][2]) + CartTotalFrom(c, i + 1)

CartInRange(c) ==
  /\ \A l \in LinesOf(c) : c[l[1]][l[2]] \in QtyRange
  /\ CartTotalFrom(c, 1) <= MaxQty

\* what the server does with a request it accepts
ServerStep(req, r) ==
  CASE req.kind = "add" -> ServerAdd(r, req.pid, req.size, req.qty)
    [] req.kind = "update" -> ServerUpdate(r, req.pid, req.size, req.qty)
    [] req.kind = "remove" -> ServerRemove(r, req.pid, req.size)
    [] req.kind = "merge" -> ServerMerge(r, req.payload)
    [] OTHER -> r

\* the encodings of the cart a successful response of each kind may carry
Shapes(kind) ==
  CASE kind = "get" -> {"array"}
    [] kind = "add" -> {"object"}
    [] kind = "update" -> {"object", "array"}
    [] kind = "remove" -> {"array", "none"}
    [] OTHER -> {"none"}

\* a response in flight either reports success ("ok") or is a failure ("failed");
\* a failure reaches the handler as success=false ("fail") or as a thrown error ("neterr")
Outcomes == {"ok", "failed"}
Failures == {"fail", "neterr"}

(* ---------------------- requests and responses -------------------------- *)
\* via is bookkeeping: via = "merge" marks the fetch mergeCart issues after a
\* successful merge
Req(kind, p, s, q, payload, via) ==
  [kind |-> kind, pid |-> p, size |-> s, qty |-> q, payload |-> payload, via |-> via]

NoReq == Req("none", "-", "-", 0, EmptyCart, "-")

\* A response carries the server's cart in the given shape (none when it failed or
\* when the shape is "none"). It keeps of its request what the handler still uses after
\* the await (the line, for a remove that succeeded), the payload and via. mirror is
\* bookkeeping: the local store at the time a remove answered without a cart was called.
Resp(req, res, cart, shape) ==
  LET line == req.kind = "remove" /\ res = "ok"
  IN [kind |-> req.kind, res |-> res,
      cart |-> IF res = "ok" /\ shape # "none" THEN cart ELSE EmptyCart,
      shape |-> IF res = "ok" THEN shape ELSE "none",
      pid |-> IF line THEN req.pid ELSE "-", size |-> IF line THEN req.size ELSE "-",
      mirror |-> IF line /\ shape = "none" THEN store ELSE EmptyCart,
      payload |-> req.payload, via |-> req.via]

RemoveAt(seq, i) == SubSeq(seq, 1, i - 1) \o SubSeq(seq, i + 1, Len(seq))

\* The client sends a request; the server handles it (or the request fails) and the
\* response joins the responses in flight after those of `pending`.
Send(req, pending) ==
  \E res \in Outcomes : \E shape \in Shapes(req.kind) :
    LET r2 == ServerStep(req, remote)
    IN /\ res = "ok" => CartInRange(r2)
       /\ res # "ok" => shape = CHOOSE x \in Shapes(req.kind) : TRUE
       /\ remote' = IF res = "ok" THEN r2 ELSE remote
       /\ inflight' = Append(pending, Resp(req, res, r2, shape))

(* ---------------------- handlers, as functions of the state ------------- *)
\* What a handler leaves behind: the provider's state, the toast it showed and the
\* request it sent. Same is the outcome of a handler that does nothing.
Same ==
  [token |-> token, csrfToken |-> csrfToken, products |-> products, store |-> store,
   cartItem |-> cartItem, level |-> "none", msg |-> "", req |-> NoReq, wrote |-> "no",
   cookie |-> cookies]

Toast(o, level, msg) == [o EXCEPT !.level = level, !.msg = msg]

\* saveCartToStore(cartData): store.setTable('cart', cartData); setCartItem(cartData)
\* (setTable is taken to replace the whole table by cartData)
saveCartToStore(o, cartData, who) ==
  [o EXCEPT !.store = cartData, !.cartItem = cartData, !.wrote = who]

\* useEffect(() => { if (token && csrfToken) getCartData(); }, [token, csrfToken])
EffectFetches(tok, csrf, tok2, csrf2) ==
  (tok2 # tok \/ csrf2 # csrf) /\ tok2 # NULL /\ csrf2 # NULL

\* getCartData with the token and CSRF token of the render it was created in
getCartDataWith(tok, csrf, via) ==
  IF tok = NULL \/ csrf = NULL THEN NoReq
  ELSE Req("get", "-", "-", 0, EmptyCart, via)

getCartData == [Same EXCEPT !.req = getCartDataWith(token, csrfToken, "-")]

\* fetchCsrfToken, followed by the effect on [token, csrfToken]
fetchCsrfToken(ok) ==
  LET c2 == IF ok THEN "c" ELSE NULL
      o == [Same EXCEPT !.csrfToken = c2,
                        !.req = IF EffectFetches(token, csrfToken, token, c2)
                                THEN getCartDataWith(token, c2, "-") ELSE NoReq]
  IN IF ok THEN o ELSE Toast(o, "error", "Failed to fetch CSRF token")

\* getProductsData
getProductsData(ok) ==
  IF ok THEN [Same EXCEPT !.products = Catalog]
  ELSE Toast(Same, "error", "Failed to fetch products")

\* getProductsData when the server answers with the product list `list`
getProductsDataWith(list) == [Same EXCEPT !.products = list]

\* addCartItem(productId, size, quantity)
addCartItem(p, s, q) ==
  LET v == ValidateAdd(products, p, s, q)
  IN IF v # "ok" THEN Toast(Same, "error", v)
     ELSE IF Authenticated(token, csrfToken)
     THEN [Same EXCEPT !.req = Req("add", p, s, q, EmptyCart, "-")]
     ELSE Toast(saveCartToStore(Same, GuestAdd(store, p, s, q), "guest"),
                "success", "Added to cart")

\* updateCartItem(productId, size, quantity)
updateCartItem(p, s, q) ==
  LET v == ValidateUpdate(products, p, s, q)
  IN IF v # "ok" THEN Toast(Same, "error", v)
     ELSE IF Authenticated(token, csrfToken)
     THEN [Same EXCEPT !.req = Req("update", p, s, q, EmptyCart, "-")]
     ELSE Toast(saveCartToStore(Same, GuestUpdate(store, p, s, q), "guest"),
                "success", "Cart updated")

\* removeCartItem(productId, size)
removeCartItem(p, s) ==
  LET v == ValidateRemove(products, p, s)
  IN IF v # "ok" THEN Toast(Same, "error", v)
     ELSE IF Authenticated(token, csrfToken)
     THEN [Same EXCEPT !.req = Req("remove", p, s, 0, EmptyCart, "-")]
     ELSE IF GuestRemoveFound(store, p)
     THEN Toast(saveCartToStore(Same, GuestRemove(store, p, s), "guest"),
                "success", "Removed from cart")
     ELSE Toast(Same, "error", "Item not found in cart")

\* variant of MergeSends without the check for an empty local cart
MergeSendsEmptyToo(tok, csrf, local) == tok # NULL /\ csrf # NULL

\* mergeCart: if (!token || !csrfToken) return; if (Object.keys(local).length === 0) return;
MergeSends(tok, csrf, local) == tok # NULL /\ csrf # NULL /\ DOMAIN local # {}

\* mergeCart with the token and CSRF token of the render it was created in
mergeCartWith(tok, csrf) ==
  IF MergeSends(tok, csrf, store)
  THEN [Same EXCEPT !.req = Req("merge", "-", "-", 0, store, "-")]
  ELSE Same

mergeCart == mergeCartWith(token, csrfToken)

\* Success (login landing page): setToken(accessToken); setCookie('accessToken', ...);
\* mergeCart(); the mergeCart it
\* calls belongs to the render before setToken and sees that render's token.
\* The effect on [token, csrfToken] runs after the state change.
Success ==
  LET m == mergeCartWith(token, csrfToken)
      o == [m EXCEPT !.token = "t", !.cookie = "t"]
  IN Toast(IF m.req.kind = "none" /\ EffectFetches(token, csrfToken, "t", csrfToken)
           THEN [o EXCEPT !.req = getCartDataWith("t", csrfToken, "-")]
           ELSE o,
           "success", "Google login successful")

\* variant of logout that leaves the local store as it is
logoutKeepingStore ==
  Toast([Same EXCEPT !.token = NULL, !.cartItem = EmptyCart, !.cookie = NULL],
        "success", "Logged out successfully")

\* logout: setToken(null); store.delTable('cart'); setCartItem({});
\* removeCookie('accessToken'); localStorage is left as it is
logout ==
  Toast([Same EXCEPT !.token = NULL, !.store = EmptyCart, !.cartItem = EmptyCart,
                     !.wrote = "cleared", !.cookie = NULL],
        "success", "Logged out successfully")

\* ShopContextProvider mounts again (page reload): every useState starts over, the
\* store is a new createStore(), the token is read from the cookie or, failing that,
\* from localStorage
mount ==
  [Same EXCEPT !.token = Or(cookies, localStorage), !.csrfToken = NULL, !.products = {},
               !.store = EmptyCart, !.cartItem = EmptyCart, !.wrote = "cleared"]

(* ---------------------- response handling -------------------------------- *)
\* getCartData, success: rebuild from response.data.cartItems keeping quantity > 0
GetCartOnSuccess(r) == FromArrayPositive(ToArray(r.cart), EmptyCart)

\* variant of AddOnSuccess that keeps a cart an earlier response has stored
AddOnSuccessFirstWins(r) ==
  IF storeFrom = "remote" /\ DOMAIN store # {} THEN store ELSE FromObject(r.cart)

\* addCartItem, success: copy response.data.cartData entry by entry; of an array
\* Object.entries yields the indices as keys and the items as values
AddOnSuccess(r) ==
  IF r.shape = "array" THEN FromObject(EntriesOfArray(ToArray(r.cart)))
  ELSE FromObject(r.cart)

\* updateCartItem, success: object-shaped or array-shaped response.data.cartData
UpdateOnSuccess(r) ==
  IF r.shape = "object" THEN FromObject(r.cart)
  ELSE IF r.shape = "array" THEN FromArrayAll(ToArray(r.cart), EmptyCart)
  ELSE EmptyCart

\* variant of RemoveOnSuccess that keeps the product entry when its last size goes
RemoveOnSuccessKeepingEntry(r, st) ==
  IF r.shape = "array" THEN FromArrayPositive(ToArray(r.cart), EmptyCart)
  ELSE IF HasLine(st, r.pid, r.size)
       THEN [st EXCEPT ![r.pid] = [y \in DOMAIN st[r.pid] \ {r.size} |-> st[r.pid][y]]]
       ELSE st

\* removeCartItem, success: the array the server returns, else the store minus the line
RemoveOnSuccess(r, st) ==
  IF r.shape = "array" THEN FromArrayPositive(ToArray(r.cart), EmptyCart)
  ELSE DelLine(st, r.pid, r.size)

\* a failed request: toast.error(response.data.message || msg) when success=false,
\* toast.error(error.response?.data?.message || error.message || ...) when it throws
Failed(o, how, msg) ==
  IF how = "fail" THEN Toast(o, "error", msg) ELSE Toast(o, "error", "Network Error")

\* getCartData after the await; success=false is only logged to the console
getCartDataThen(r, how) ==
  IF r.res = "ok" THEN saveCartToStore(Same, GetCartOnSuccess(r), "remote")
  ELSE IF how = "fail" THEN Same
  ELSE Failed(Same, how, "")

\* addCartItem after the await
addCartItemThen(r, how) ==
  IF r.res = "ok"
  THEN Toast(saveCartToStore(Same, AddOnSuccess(r), "remote"), "success", "Added to cart")
  ELSE Failed(Same, how, "Failed to add to cart")

\* updateCartItem after the await
updateCartItemThen(r, how) ==
  IF r.res = "ok"
  THEN Toast(saveCartToStore(Same, UpdateOnSuccess(r), "remote"), "success", "Cart updated")
  ELSE Failed(Same, how, "Failed to update cart")

\* removeCartItem after the await
removeCartItemThen(r, how) ==
  IF r.res = "ok"
  THEN Toast(saveCartToStore(Same, RemoveOnSuccess(r, store), "remote"),
             "success", "Removed from cart")
  ELSE Failed(Same, how, "Failed to remove from cart")

\* variant of mergeCartThen that clears the local cart whatever the answer
mergeCartThenClearing(r, how) ==
  LET cleared == [Same EXCEPT !.store = EmptyCart, !.cartItem = EmptyCart,
                              !.wrote = "cleared"]
  IN IF r.res = "ok"
     THEN Toast([cleared EXCEPT !.req = getCartDataWith("t", "c", "merge")],
                "success", "Cart merged successfully")
     ELSE Failed(cleared, how, "Failed to merge cart")

\* mergeCart after the await: on success store.delTable('cart'); setCartItem({});
\* await getCartData() with the token and CSRF token mergeCart was called with
mergeCartThen(r, how) ==
  IF r.res = "ok"
  THEN Toast([Same EXCEPT !.store = EmptyCart, !.cartItem = EmptyCart, !.wrote = "cleared",
                          !.req = getCartDataWith("t", "c", "merge")],
             "success", "Cart merged successfully")
  ELSE Failed(Same, how, "Failed to merge cart")

Then(r, how) ==
  CASE r.kind = "get" -> getCartDataThen(r, how)
    [] r.kind = "add" -> addCartItemThen(r, how)
    [] r.kind = "update" -> updateCartItemThen(r, how)
    [] r.kind = "remove" -> removeCartItemThen(r, how)
    [] r.kind = "merge" -> mergeCartThen(r, how)

(* ---------------------- catalog view (Collection page) ------------------ *)
\* Text is a sequence of characters.
ToLower(c) ==
  CASE c = "B" -> "b" [] c = "C" -> "c" [] c = "E" -> "e" [] c = "T" -> "t"
    [] OTHER -> c

\* String.prototype.toLowerCase
toLowerCase(str) == [i \in 1..Len(str) |-> ToLower(str[i])]

\* String.prototype.trim
RECURSIVE trim(_)
trim(str) ==
  IF str = <<>> THEN str
  ELSE IF Head(str) = " " THEN trim(Tail(str))
  ELSE IF str[Len(str)] = " " THEN trim(SubSeq(str, 1, Len(str) - 1))
  ELSE str

\* String.prototype.includes
includes(str, part) ==
  \E i \in 0..(Len(str) - Len(part)) : SubSeq(str, i + 1, i + Len(part)) = part

\* the products the catalog view is run on: P and Q share a rating, Q and R a date,
\* P and R a price; Q is out of stock
ViewCatalog == {"P", "Q", "R"}
Product(id) ==
  CASE id = "P" -> [_id |-> "P", name |-> <<"T", "e", "e">>, description |-> <<"t", "o", "p">>,
                    category |-> "Men", subCategory |-> "Topwear", price |-> 100,
                    averageRating |-> 4, stock |-> 5, date |-> 2]
    [] id = "Q" -> [_id |-> "Q", name |-> <<"C", "a", "p">>, description |-> <<"h", "a", "t">>,
                    category |-> "Men", subCategory |-> "Winterwear", price |-> 50,
                    averageRating |-> 4, stock |-> 0, date |-> 1]
    [] id = "R" -> [_id |-> "R", name |-> <<"B", "a", "g">>, description |-> <<"t", "o", "t", "e">>,
                    category |-> "Women", subCategory |-> "Topwear", price |-> 100,
                    averageRating |-> 5, stock |-> 3, date |-> 1]

\* parseFloat of the text of a number input: <<n>> for a number, <<>> for NaN
Digit(c) ==
  CASE c = "0" -> 0 [] c = "1" -> 1 [] c = "2" -> 2 [] c = "3" -> 3 [] c = "4" -> 4
    [] c = "5" -> 5 [] c = "6" -> 6 [] c = "7" -> 7 [] c = "8" -> 8 [] c = "9" -> 9

RECURSIVE Digits(_, _)
Digits(text, acc) ==
  IF text = <<>> THEN acc ELSE Digits(Tail(text), 10 * acc + Digit(Head(text)))

parseFloat(text) == IF text = <<>> THEN <<>> ELSE <<Digits(text, 0)>>

\* priceRange.max is a number <<n>> or Infinity
INFINITY == <<>>
AtMost(x, max) == max = INFINITY \/ x <= max[1]

\* parseFloat(...) || 0 and parseFloat(...) || Infinity: NaN and 0 are falsy
OrZero(parsed) == IF parsed = <<>> \/ parsed[1] = 0 THEN 0 ELSE parsed[1]
OrInfinity(parsed) == IF parsed = <<>> \/ parsed[1] = 0 THEN INFINITY ELSE parsed

\* useState initial values of Collection, with search and showSearch of the context
InitCollection ==
  [selectedCategories |-> {}, selectedSubCategories |-> {},
   priceRange |-> [min |-> 0, max |-> INFINITY], minRating |-> 0, inStockOnly |-> FALSE,
   sortType |-> "relevant", search |-> <<>>, showSearch |-> FALSE]

\* variant of Compare that orders by rating ascending when no other key is chosen
CompareRatingAscending(sortType, a, b) ==
  CASE sortType = "low-high" -> a.price - b.price
    [] sortType = "high-low" -> b.price - a.price
    [] sortType = "newest" -> b.date - a.date
    [] OTHER -> a.averageRating - b.averageRating

\* the comparators of the sort switch: a negative number puts a first
Compare(sortType, a, b) ==
  CASE sortType = "low-high" -> a.price - b.price
    [] sortType = "high-low" -> b.price - a.price
    [] sortType = "newest" -> b.date - a.date
    [] OTHER -> b.averageRating - a.averageRating

\* Array.prototype.sort with a comparator: a stable sort
RECURSIVE insert(_, _, _)
insert(sorted, x, sortType) ==
  IF sorted = <<>> THEN <<x>>
  ELSE IF Compare(sortType, x, Head(sorted)) < 0 THEN <<x>> \o sorted
  ELSE <<Head(sorted)>> \o insert(Tail(sorted), x, sortType)

RECURSIVE sort(_, _)
sort(list, sortType) ==
  IF list = <<>> THEN <<>>
  ELSE insert(sort(SubSeq(list, 1, Len(list) - 1), sortType), list[Len(list)], sortType)

\* filteredProducts: products.slice(), the chain of filters, the sort
filteredProductsOf(list, f) ==
  LET text == toLowerCase(trim(f.search))
      byText(item) == \/ includes(toLowerCase(item.name), text)
                      \/ includes(toLowerCase(item.description), text)
      byCategory(item) == item.category \in f.selectedCategories
      bySubCategory(item) == item.subCategory \in f.selectedSubCategories
      byPrice(item) == item.price >= f.priceRange.min /\ AtMost(item.price, f.priceRange.max)
      byRating(item) == item.averageRating >= f.minRating
      byStock(item) == item.stock > 0
      f0 == [i \in 1..Len(list) |-> Product(list[i])]
      f1 == IF f.showSearch /\ trim(f.search) # <<>> THEN SelectSeq(f0, byText) ELSE f0
      f2 == IF f.selectedCategories # {} THEN SelectSeq(f1, byCategory) ELSE f1
      f3 == IF f.selectedSubCategories # {} THEN SelectSeq(f2, bySubCategory) ELSE f2
      f4 == SelectSeq(f3, byPrice)
      f5 == SelectSeq(f4, byRating)
      f6 == IF f.inStockOnly THEN SelectSeq(f5, byStock) ELSE f5
  IN sort(f6, f.sortType)

filteredProducts == filteredProductsOf(products, collection)

(* ---------------------- the state machine ------------------------------- *)
\* useState initial values: the token comes from the cookie or localStorage. Nothing
\* in the storefront writes localStorage: the key holds what it held before, a token
\* or nothing.
Init ==
  /\ cookies \in {NULL, "t"}
  /\ localStorage \in {NULL, "t"}
  /\ token = Or(cookies, localStorage)
  /\ csrfToken = NULL
  /\ products = {}
  /\ store = EmptyCart
  /\ cartItem = EmptyCart
  /\ remote = EmptyCart
  /\ inflight = <<>>
  /\ storeFrom = "empty"
  /\ collection = InitCollection

\* A handler runs to its next await: the provider's state becomes the handler's outcome,
\* and the request it sent, if any, is handled by the server.
Apply(o, pending) ==
  /\ CartInRange(o.store)
  /\ token' = o.token
  /\ csrfToken' = o.csrfToken
  /\ products' = o.products
  /\ store' = o.store
  /\ cartItem' = o.cartItem
  /\ storeFrom' = IF o.wrote = "no" THEN storeFrom
                  ELSE IF o.wrote = "cleared" THEN "empty" ELSE o.wrote
  /\ cookies' = o.cookie
  /\ UNCHANGED <<collection, localStorage>>
  /\ IF o.req.kind = "none"
     THEN /\ remote' = remote
          /\ inflight' = pending
     ELSE /\ Len(pending) < MaxInflight
          /\ Send(o.req, pending)

\* fetchCsrfToken is called when the application starts and by pages that find
\* csrfToken missing (Verify.tsx): in both cases csrfToken is null
FetchCsrfToken ==
  /\ csrfToken = NULL
  /\ \E ok \in BOOLEAN : Apply(fetchCsrfToken(ok), inflight)

GetProductsData == \E ok \in BOOLEAN : Apply(getProductsData(ok), inflight)

GetCartData == Apply(getCartData, inflight)

AddCartItem == \E a \in AddInputs : Apply(addCartItem(a[1], a[2], a[3]), inflight)

UpdateCartItem == \E a \in UpdateInputs : Apply(updateCartItem(a[1], a[2], a[3]), inflight)

RemoveCartItem == \E a \in RemoveInputs : Apply(removeCartItem(a[1], a[2]), inflight)

MergeCart == Apply(mergeCart, inflight)

SuccessPage == Apply(Success, inflight)

Logout == Apply(logout, inflight)

\* The page is reloaded. Responses still in flight would be dropped with the old page;
\* as the server has handled their requests already and the reload resets all of the
\* client's state, the same states are reached by reloading once they are delivered.
Reload ==
  /\ inflight = <<>>
  /\ Apply(mount, inflight)

\* a response arrives and the handler that awaited it continues
Response ==
  \E i \in 1..Len(inflight) : \E how \in Failures :
    Apply(Then(inflight[i], how), RemoveAt(inflight, i))

Next ==
  \/ FetchCsrfToken
  \/ GetProductsData
  \/ GetCartData
  \/ AddCartItem
  \/ UpdateCartItem
  \/ RemoveCartItem
  \/ MergeCart
  \/ SuccessPage
  \/ Logout
  \/ Reload
  \/ Response

Spec == Init /\ [][Next]_vars

(* ---------------------- cart total ---------------------------------------- *)
\* for (const size in cartItem[productId]) totalAmount += product.price * quantity
RECURSIVE AmountOfSizes(_, _, _)
AmountOfSizes(item, sizes, price) ==
  IF sizes = {} THEN 0
  ELSE LET size == CHOOSE x \in sizes : TRUE
       IN price * item[size] + AmountOfSizes(item, sizes \ {size}, price)

\* for (const productId in cartItem) { const product = products.find(...);
\*                                     if (product) { ... } }
RECURSIVE AmountOfEntries(_, _, _)
AmountOfEntries(cart, prods, pids) ==
  IF pids = {} THEN 0
  ELSE LET productId == CHOOSE x \in pids : TRUE
       IN (IF productId \in prods
           THEN AmountOfSizes(cart[productId], DOMAIN cart[productId], Price(productId))
           ELSE 0) + AmountOfEntries(cart, prods, pids \ {productId})

\* variant of getCartAmountOf that prices every entry, found in the product list or not
getCartAmountCountingMissing(cart, prods) == AmountOfEntries(cart, DOMAIN cart, DOMAIN cart)

getCartAmountOf(cart, prods) == AmountOfEntries(cart, prods, DOMAIN cart)

getCartAmount == getCartAmountOf(cartItem, products)

(* ---------------------- request headers ----------------------------------- *)
\* The headers of a request: the bearer credential and the X-CSRF-Token header, which
\* a request may lack (ABSENT) or carry with the value null.
ABSENT == "absent"
Headers(auth, csrf) == [Authorization |-> auth, XCsrfToken |-> csrf]

\* the cart requests of the storefront (get, add, update, remove, merge): sent only
\* with token and csrfToken present, headers: { Authorization, 'X-CSRF-Token': csrfToken }
CartRequestHeaders ==
  IF Authenticated(token, csrfToken) THEN {Headers(token, csrfToken)} ELSE {}

\* Profile.tsx, fetchProfile: sent when cookies.accessToken is set, with the csrfToken
\* of the context whatever it is
fetchProfile ==
  IF token # NULL THEN {Headers(token, csrfToken)} ELSE {}

\* admin Products.tsx, fetchProducts: sent when the admin's token is set, with
\* headers: { Authorization } only
fetchProducts(tok) ==
  IF tok # NULL THEN {Headers(tok, ABSENT)} ELSE {}

\* admin OrderDetail.tsx, fetchOrder: sent when the admin's token and the orderId are
\* set, with headers: { Authorization } only
fetchOrder(tok) ==
  IF tok # NULL THEN {Headers(tok, ABSENT)} ELSE {}

(* ---------------------- cart page (Cart.tsx) ------------------------------ *)
\* cartItemList, the effect on [cartItem, products]: one entry for every line of the
\* cart whose product is in the product list and whose quantity is above 0
cartItemListOf(cart, prods) ==
  {[productId |-> l[1], size |-> l[2], quantity |-> cart[l[1]][l[2]], stock |-> Stock(l[1])] :
     l \in {x \in LinesOf(cart) : x[1] \in prods /\ cart[x[1]][x[2]] > 0}}

cartItemList == cartItemListOf(cartItem, products)

\* variant of checkoutDisabled that looks at the number of entries only
checkoutDisabledCountOnly(list) == Cardinality(list) = 0

\* disabled={cartItemList.length === 0 || cartItemList.some(item => item.quantity > item.stock)}
checkoutDisabled(list) ==
  Cardinality(list) = 0 \/ \E item \in list : item.quantity > item.stock

\* the button is rendered only with a non-empty cartItemList
checkoutEnabled == Cardinality(cartItemList) # 0 /\ ~checkoutDisabled(cartItemList)

\* String(n) of a number that is not negative
DigitChar(d) == <<"0", "1", "2", "3", "4", "5", "6", "7", "8", "9">>[d + 1]
RECURSIVE String(_)
String(n) == IF n < 10 THEN <<DigitChar(n)>> ELSE String(n \div 10) \o <<DigitChar(n % 10)>>

\* parseInt(value): an optional minus sign and the digits the text starts with;
\* <<n>> for a number, <<>> for NaN
IsDigit(c) == c \in {"0", "1", "2", "3", "4", "5", "6", "7", "8", "9"}
RECURSIVE LeadingDigits(_)
LeadingDigits(text) ==
  IF text = <<>> \/ ~IsDigit(Head(text)) THEN <<>>
  ELSE <<Head(text)>> \o LeadingDigits(Tail(text))

parseInt(text) ==
  LET negative == text # <<>> /\ Head(text) = "-"
      digits == LeadingDigits(IF negative THEN Tail(text) ELSE text)
  IN IF digits = <<>> THEN <<>>
     ELSE IF negative THEN <<0 - Digits(digits, 0)>> ELSE <<Digits(digits, 0)>>

\* the call handleQuantityChange makes
Call(fn, p, s, q) == [fn |-> fn, productId |-> p, size |-> s, quantity |-> q]
handleQuantityChange(productId, size, value) ==
  LET newQuantity == parseInt(value)
  IN IF newQuantity = <<>> \/ newQuantity[1] < 0 THEN Call("none", productId, size, 0)
     ELSE IF newQuantity[1] = 0 THEN Call("removeCartItem", productId, size, 0)
     ELSE Call("updateCartItem", productId, size, newQuantity[1])

Max(a, b) == IF a > b THEN a ELSE b
Min(a, b) == IF a < b THEN a ELSE b

\* the '-' button of an entry
minusButton(item) ==
  handleQuantityChange(item.productId, item.size, String(Max(0, item.quantity - 1)))

\* the '+' button of an entry, disabled={item.quantity >= item.stock}
plusDisabled(item) == item.quantity >= item.stock
plusButton(item) ==
  handleQuantityChange(item.productId, item.size, String(Min(item.stock, item.quantity + 1)))

(* ---------------------- error messages ------------------------------------ *)
\* A failed answer as a handler sees it: thrown (axios rejects, error.response holds
\* the status and the body, error.message the text of axios) or returned with
\* success=false; message is the message of the body, NULL when the body has none.
SERVER_MESSAGE == "message of the server"
AXIOS_MESSAGE == "Request failed"
FailedAnswers ==
  {[thrown |-> FALSE, status |-> 200, message |-> m] : m \in {NULL, SERVER_MESSAGE}}
  \cup {[thrown |-> TRUE, status |-> st, message |-> m] :
          st \in {400, 401, 404, 500}, m \in {NULL, SERVER_MESSAGE}}

\* the error message each handler shows for a failed answer ("" when it shows none)
getCartDataShows(r) ==
  IF r.thrown THEN Or(r.message, AXIOS_MESSAGE) ELSE ""
addCartItemShows(r) ==
  IF r.thrown THEN Or(r.message, AXIOS_MESSAGE) ELSE Or(r.message, "Failed to add to cart")
updateCartItemShows(r) ==
  IF r.thrown THEN Or(r.message, AXIOS_MESSAGE) ELSE Or(r.message, "Failed to update cart")
removeCartItemShows(r) ==
  IF r.thrown THEN Or(r.message, AXIOS_MESSAGE) ELSE Or(r.message, "Failed to remove from cart")
mergeCartShows(r) ==
  IF r.thrown THEN Or(r.message, AXIOS_MESSAGE) ELSE Or(r.message, "Failed to merge cart")

\* Profile.tsx, handleUpdatePassword
handleUpdatePasswordShows(r) ==
  IF r.thrown
  THEN IF r.status = 400 THEN "Invalid old password" ELSE Or(r.message, "Server error")
  ELSE Or(r.message, "Failed to update password")

\* Profile.tsx, handleForgotPassword
handleForgotPasswordShows(r) ==
  IF r.thrown
  THEN IF r.status = 404 THEN "User not found" ELSE Or(r.message, "Server error")
  ELSE Or(r.message, "Failed to send password reset link")

\* VerifyEmail, verifyEmail
verifyEmailShows(r) ==
  IF r.thrown
  THEN IF r.status = 400 THEN "Invalid or expired token" ELSE Or(r.message, "Server error")
  ELSE Or(r.message, "Failed to verify email")

(* ---------------------- guest-only runs --------------------------------- *)
\* A session that stays on the guest route (no CSRF token) with the catalog loaded:
\* addCartItem, updateCartItem and removeCartItem are called with valid lines and
\* arbitrary integer quantities, followed up to GuestSlack beyond the stock.
GuestQtys == (0 - GuestSlack)..(Stock("X") + GuestSlack)

InitGuest ==
  /\ token \in {NULL, "t"}
  /\ cookies = token
  /\ localStorage = NULL
  /\ csrfToken = NULL
  /\ products = Catalog
  /\ store = EmptyCart
  /\ cartItem = EmptyCart
  /\ remote = EmptyCart
  /\ inflight = <<>>
  /\ storeFrom = "empty"
  /\ collection = InitCollection

GuestApply(o) ==
  /\ o.req = NoReq
  /\ \A l \in LinesOf(o.store) : o.store[l[1]][l[2]] \in GuestQtys
  /\ token' = o.token
  /\ csrfToken' = o.csrfToken
  /\ products' = o.products
  /\ store' = o.store
  /\ cartItem' = o.cartItem
  /\ storeFrom' = IF o.wrote = "no" THEN storeFrom ELSE o.wrote
  /\ cookies' = o.cookie
  /\ UNCHANGED <<collection, localStorage>>
  /\ UNCHANGED <<remote, inflight>>

GuestAddCartItem ==
  \E s \in Sizes("X"), q \in GuestQtys : GuestApply(addCartItem("X", s, q))

GuestUpdateCartItem ==
  \E s \in Sizes("X"), q \in GuestQtys : GuestApply(updateCartItem("X", s, q))

GuestRemoveCartItem ==
  \E s \in Sizes("X") : GuestApply(removeCartItem("X", s))

NextGuest ==
  \/ GuestAddCartItem
  \/ GuestUpdateCartItem
  \/ GuestRemoveCartItem

SpecGuest == InitGuest /\ [][NextGuest]_vars

(* ---------------------- concurrent mutations ----------------------------- *)
\* An authenticated session with the catalog loaded, in which addCartItem,
\* updateCartItem and removeCartItem are called without waiting for the responses of
\* the calls before: up to MaxRace responses are in flight and arrive in any order.
InitRace ==
  /\ token = "t"
  /\ cookies = "t"
  /\ localStorage = NULL
  /\ csrfToken = "c"
  /\ products = Catalog
  /\ store = EmptyCart
  /\ cartItem = EmptyCart
  /\ remote = EmptyCart
  /\ inflight = <<>>
  /\ storeFrom = "empty"
  /\ collection = InitCollection

RaceApply(o, pending) ==
  /\ CartTotalFrom(o.store, 1) <= RaceQty
  /\ token' = o.token
  /\ csrfToken' = o.csrfToken
  /\ products' = o.products
  /\ store' = o.store
  /\ cartItem' = o.cartItem
  /\ storeFrom' = IF o.wrote = "no" THEN storeFrom ELSE o.wrote
  /\ cookies' = o.cookie
  /\ UNCHANGED <<collection, localStorage>>
  /\ IF o.req.kind = "none"
     THEN /\ remote' = remote
          /\ inflight' = pending
     ELSE /\ Len(pending) < MaxRace
          /\ CartTotalFrom(ServerStep(o.req, remote), 1) <= RaceQty
          /\ Send(o.req, pending)

RaceAddCartItem ==
  \E s \in Sizes("X") : RaceApply(addCartItem("X", s, 1), inflight)

RaceUpdateCartItem ==
  \E s \in Sizes("X"), q \in 0..RaceQty : RaceApply(updateCartItem("X", s, q), inflight)

RaceRemoveCartItem ==
  \E s \in Sizes("X") : RaceApply(removeCartItem("X", s), inflight)

RaceResponse ==
  \E i \in 1..Len(inflight) : \E how \in Failures :
    RaceApply(Then(inflight[i], how), RemoveAt(inflight, i))

NextRace ==
  \/ RaceAddCartItem
  \/ RaceUpdateCartItem
  \/ RaceRemoveCartItem
  \/ RaceResponse

SpecRace == InitRace /\ [][NextRace]_vars

(* ---------------------- runs about the cart total ------------------------- *)
\* A guest session over the product list Priced: lines are added, updated and removed
\* with quantities from AmountQtys, and the product list is fetched again and may have
\* lost products in between.
AmountQtys == (0 - GuestSlack)..MaxAmountQty

InitAmount ==
  /\ token = NULL
  /\ cookies = NULL
  /\ localStorage = NULL
  /\ csrfToken = NULL
  /\ products = Priced
  /\ store = EmptyCart
  /\ cartItem = EmptyCart
  /\ remote = EmptyCart
  /\ inflight = <<>>
  /\ storeFrom = "empty"
  /\ collection = InitCollection

AmountApply(o) ==
  /\ o.req = NoReq
  /\ \A l \in LinesOf(o.store) : o.store[l[1]][l[2]] \in AmountQtys
  /\ token' = o.token
  /\ csrfToken' = o.csrfToken
  /\ products' = o.products
  /\ store' = o.store
  /\ cartItem' = o.cartItem
  /\ storeFrom' = IF o.wrote = "no" THEN storeFrom ELSE o.wrote
  /\ cookies' = o.cookie
  /\ UNCHANGED <<collection, localStorage>>
  /\ UNCHANGED <<remote, inflight>>

AmountAddCartItem ==
  \E p \in Priced, s \in {"M", "L"}, q \in AmountQtys : AmountApply(addCartItem(p, s, q))

AmountUpdateCartItem ==
  \E p \in Priced, s \in {"M", "L"}, q \in AmountQtys : AmountApply(updateCartItem(p, s, q))

AmountRemoveCartItem ==
  \E p \in Priced, s \in {"M", "L"} : AmountApply(removeCartItem(p, s))

AmountGetProductsData ==
  \E list \in SUBSET Priced : AmountApply(getProductsDataWith(list))

NextAmount ==
  \/ AmountAddCartItem
  \/ AmountUpdateCartItem
  \/ AmountRemoveCartItem
  \/ AmountGetProductsData

SpecAmount == InitAmount /\ [][NextAmount]_vars

(* ---------------------- runs about the catalog view ----------------------- *)
\* The Collection page over the product list ViewCatalog, which the server may have
\* returned in any order: products holds the list in the order of the response. The
\* filters and the sort key are set through the controls of the page; search and
\* showSearch are set by the search bar through the context.
Orders(S) ==
  {q \in [1..Cardinality(S) -> S] : \A i, j \in 1..Cardinality(S) : q[i] = q[j] => i = j}

\* what is typed into the price inputs and the search bar, and the ratings picked
MinInputs == {<<>>, <<"0">>, <<"6", "0">>}
MaxInputs == {<<>>, <<"0">>, <<"8", "0">>}
SearchInputs == {<<>>, <<" ", "t", "E", " ">>}
RatingInputs == {4, 5}
SortTypes == {"relevant", "low-high", "high-low", "newest"}

InitCatalog ==
  /\ token = NULL
  /\ cookies = NULL
  /\ localStorage = NULL
  /\ csrfToken = NULL
  /\ products \in Orders(ViewCatalog)
  /\ store = EmptyCart
  /\ cartItem = EmptyCart
  /\ remote = EmptyCart
  /\ inflight = <<>>
  /\ storeFrom = "empty"
  /\ collection = InitCollection

\* the categories and subcategories the page offers: those of the product list
categories == {Product(products[i]).category : i \in 1..Len(products)}
subCategories == {Product(products[i]).subCategory : i \in 1..Len(products)}

Toggle(selected, value) ==
  IF value \in selected THEN selected \ {value} ELSE selected \cup {value}

SetCollection(c) ==
  /\ collection' = c
  /\ UNCHANGED <<token, csrfToken, products, store, cartItem, remote, inflight, storeFrom,
                 cookies, localStorage>>

toggleCategory ==
  \E value \in categories :
    SetCollection([collection EXCEPT
      !.selectedCategories = Toggle(collection.selectedCategories, value)])

toggleSubCategory ==
  \E value \in subCategories :
    SetCollection([collection EXCEPT
      !.selectedSubCategories = Toggle(collection.selectedSubCategories, value)])

setPriceRangeMin ==
  \E text \in MinInputs :
    SetCollection([collection EXCEPT !.priceRange.min = OrZero(parseFloat(text))])

setPriceRangeMax ==
  \E text \in MaxInputs :
    SetCollection([collection EXCEPT !.priceRange.max = OrInfinity(parseFloat(text))])

setMinRating ==
  \E rating \in RatingInputs : SetCollection([collection EXCEPT !.minRating = rating])

setInStockOnly ==
  \E checked \in BOOLEAN : SetCollection([collection EXCEPT !.inStockOnly = checked])

setSortType ==
  \E value \in SortTypes : SetCollection([collection EXCEPT !.sortType = value])

setSearch ==
  \E text \in SearchInputs : SetCollection([collection EXCEPT !.search = text])

setShowSearch ==
  \E shown \in BOOLEAN : SetCollection([collection EXCEPT !.showSearch = shown])

resetFilters == SetCollection(InitCollection)

NextCatalog ==
  \/ toggleCategory
  \/ toggleSubCategory
  \/ setPriceRangeMin
  \/ setPriceRangeMax
  \/ setMinRating
  \/ setInStockOnly
  \/ setSortType
  \/ setSearch
  \/ setShowSearch
  \/ resetFilters

SpecCatalog == InitCatalog /\ [][NextCatalog]_vars

(* ====================== properties ====================================== *)
\* arguments the properties range over: every product id, size and quantity, valid or not
ClaimPids == {"X", "Z"}
ClaimSizes == {"M", "L", "XL"}
ClaimQtys == (-1)..(Stock("X") + 1)

\* the step delivers the i-th response in flight and sends nothing
Delivered(i) == inflight' = RemoveAt(inflight, i)

\* the step delivers the i-th response in flight and its handler sends one request
DeliveredAndSent(i) ==
  /\ Len(inflight') = Len(inflight)
  /\ SubSeq(inflight', 1, Len(inflight) - 1) = RemoveAt(inflight, i)

\* the step sends a request without delivering a response
Sent == Len(inflight') = Len(inflight) + 1 /\ SubSeq(inflight', 1, Len(inflight)) = inflight

Newest == inflight'[Len(inflight')]

\* every line but (p, s) is the same in both carts
SameOtherLines(c1, c2, p, s) ==
  \A x \in ClaimPids, y \in ClaimSizes :
    (x # p \/ y # s) => (HasLine(c1, x, y) <=> HasLine(c2, x, y)) /\ Qty(c1, x, y) = Qty(c2, x, y)

\* c2 is c1 without the line (p, s), the product entry gone with its last size
IsRemovalOf(c2, c1, p, s) ==
  /\ ~HasLine(c2, p, s)
  /\ SameOtherLines(c2, c1, p, s)
  /\ (p \in DOMAIN c2) <=> (p \in DOMAIN c1 /\ DOMAIN c1[p] \ {s} # {})
  /\ DOMAIN c2 \ {p} = DOMAIN c1 \ {p}

\* c2 is c1 with the line (p, s) holding n
IsSettingOf(c2, c1, p, s, n) ==
  /\ HasLine(c2, p, s) /\ c2[p][s] = n
  /\ SameOtherLines(c2, c1, p, s)
  /\ DOMAIN c2 = DOMAIN c1 \cup {p}

(* ---- C1 ---- *)
C1Cart == [p \in {"X"} |-> [s \in {"M"} |-> 2]]

\* C1: a guest whose local cart is {X:{M:2}} logs in: the step that makes the session
\* authenticated (token and CSRF token both present) sends exactly one merge request,
\* carrying {X:{M:2}}; and when the fetch that follows the successful merge returns
\* {X:{M:2}}, the local cart is empty and the authoritative cart is {X:{M:2}}.
C1_LoginMergesGuestCart ==
  [][ /\ (/\ ~Authenticated(token, csrfToken)
          /\ Authenticated(token', csrfToken')
          /\ storeFrom = "guest"
          /\ store = C1Cart)
         => (Sent /\ Newest.kind = "merge" /\ Newest.payload = C1Cart)
      /\ \A i \in 1..Len(inflight) :
           (/\ inflight[i].kind = "get" /\ inflight[i].via = "merge"
            /\ inflight[i].res = "ok" /\ inflight[i].cart = C1Cart
            /\ Delivered(i))
           => (store' = EmptyCart /\ cartItem' = C1Cart)
    ]_vars

(* ---- C2 ---- *)
\* C2: lines a guest put into the local cart stay there until a merge request carrying
\* them has succeeded or logout has run; the guest's own mutations aside, no other step
\* (a fetch, the response of an authenticated add, update or remove) changes the store.
C2_GuestCartKeptUntilMergeOrLogout ==
  [][ (storeFrom = "guest" /\ DOMAIN store # {} /\ store' # store)
      => \/ storeFrom' = "guest"
         \/ (token' = NULL /\ store' = EmptyCart /\ inflight' = inflight)
         \/ \E i \in 1..Len(inflight) :
              /\ inflight[i].kind = "merge" /\ inflight[i].res = "ok"
              /\ inflight[i].payload = store
              /\ DeliveredAndSent(i)
              /\ store' = EmptyCart
    ]_vars

(* ---- C3 ---- *)
\* C3: when the fetch that mergeCart issues after a successful merge has been answered,
\* the local cart store is empty and the authoritative cart is the cart of that answer.
C3_MergeLeavesStoreEmpty ==
  [][ \A i \in 1..Len(inflight) :
        (/\ inflight[i].kind = "get" /\ inflight[i].via = "merge"
         /\ inflight[i].res = "ok"
         /\ Delivered(i))
        => (store' = EmptyCart /\ cartItem' = inflight[i].cart)
    ]_vars

(* ---- C4 ---- *)
\* C4: when the response of a merge request reports a failure (success=false or a
\* thrown error), the step that handles it leaves the local store, the authoritative
\* cart and the remote cart as they are, shows an error, and, the store still holding
\* the payload of the failed request, a mergeCart called afterwards in an authenticated
\* render sends a merge request with that same payload.
C4_FailedMergeKeepsLocalCart ==
  [][ \A i \in 1..Len(inflight) :
        (/\ inflight[i].kind = "merge" /\ inflight[i].res = "failed"
         /\ Delivered(i))
        => /\ store' = store
           /\ cartItem' = cartItem
           /\ remote' = remote
           /\ \A how \in Failures : Then(inflight[i], how).level = "error"
           /\ (store = inflight[i].payload /\ Authenticated(token', csrfToken'))
              => mergeCart'.req = Req("merge", "-", "-", 0, inflight[i].payload, "-")
    ]_vars

\* a merge request has failed and its response is about to be handled while the store
\* still holds the payload
C4_Witness ==
  \E i \in 1..Len(inflight) :
    /\ inflight[i].kind = "merge" /\ inflight[i].res = "failed"
    /\ store = inflight[i].payload /\ DOMAIN store # {}
    /\ Authenticated(token, csrfToken)

(* ---- C5 ---- *)
\* C5: while the local cart is empty, mergeCart, in whatever render it was created
\* (with or without token and CSRF token), sends no request (neither merge nor fetch),
\* shows nothing and leaves store and authoritative cart as they are; the login page's
\* call of it sends no merge request either.
C5_EmptyMergeIsNoOp ==
  DOMAIN store = {} =>
    /\ \A tok \in {NULL, "t"}, csrf \in {NULL, "c"} : mergeCartWith(tok, csrf) = Same
    /\ Success.req.kind # "merge"
    /\ Success.store = store /\ Success.cartItem = cartItem

\* the local cart is empty in an authenticated session whose remote cart is not
C5_Witness ==
  /\ DOMAIN store = {}
  /\ Authenticated(token, csrfToken)
  /\ DOMAIN remote # {}
  /\ inflight = <<>>

ExpectedError(op, p, s, q) ==
  IF p \notin products THEN "Product not found"
  ELSE IF s \notin Sizes(p) THEN "Invalid size"
  ELSE IF (op = "add" \/ (op = "update" /\ q > 0)) /\ q > Stock(p) THEN "Insufficient stock"
  ELSE "none"

ValidationErrors == {"Product not found", "Invalid size", "Insufficient stock"}

\* the outcome o of a call agrees with the validation rules: a call that fails
\* validation only shows its error, a call that passes shows none of these errors
Validated(op, o, p, s, q) ==
  LET e == ExpectedError(op, p, s, q)
  IN IF e # "none" THEN o = Toast(Same, "error", e) ELSE o.msg \notin ValidationErrors

\* C7: in every state, guest or authenticated, addItem, updateItem and removeItem fail
\* with ProductNotFound for an unknown product, else with InvalidSize for a size the
\* product does not have, else (addItem, or updateItem with quantity > 0) with
\* InsufficientStock for a quantity above the stock; a failing call sends no request
\* and changes neither store nor authoritative cart; removeItem and updateItem with
\* quantity <= 0 are never stock-checked.
C7_ValidationPrecedesEffects ==
  \A p \in ClaimPids, s \in ClaimSizes, q \in ClaimQtys :
    /\ Validated("add", addCartItem(p, s, q), p, s, q)
    /\ Validated("update", updateCartItem(p, s, q), p, s, q)
    /\ Validated("remove", removeCartItem(p, s), p, s, q)

\* an authenticated session with the catalog loaded and a cart, where a call that
\* passes validation would send a request
C7_Witness ==
  /\ products = Catalog
  /\ Authenticated(token, csrfToken)
  /\ DOMAIN cartItem # {}
  /\ inflight = <<>>

(* ---- C8 ---- *)
\* C8: for every valid (id, size), updateItem(id, size, 0) and removeItem(id, size)
\* leave the same store and the same authoritative cart and report the same outcome;
\* on the guest route the line is absent afterwards and no product entry is left
\* without sizes.
C8_UpdateZeroEqualsRemove ==
  \A p \in products, s \in ClaimSizes :
    s \in Sizes(p)
    => LET u == updateCartItem(p, s, 0)
           r == removeCartItem(p, s)
       IN /\ u.store = r.store
          /\ u.cartItem = r.cartItem
          /\ u.level = r.level
          /\ ~Authenticated(token, csrfToken)
             => IsRemovalOf(u.cartItem, cartItem, p, s)

(* ---- C9 ---- *)
\* what each mutation sends on the authenticated route
RequestOf(op, p, s, q) ==
  CASE op = "add" -> Req("add", p, s, q, EmptyCart, "-")
    [] op = "update" -> Req("update", p, s, q, EmptyCart, "-")
    [] op = "remove" -> Req("remove", p, s, 0, EmptyCart, "-")

\* the local cart c2 is what the mutation makes of the local cart c1
LocallyApplied(op, c2, c1, p, s, q) ==
  CASE op = "add" -> IsSettingOf(c2, c1, p, s, Qty(c1, p, s) + q)
    [] op = "update" -> IF q <= 0 THEN IsRemovalOf(c2, c1, p, s)
                        ELSE IsSettingOf(c2, c1, p, s, q)
    [] op = "remove" -> IsRemovalOf(c2, c1, p, s)

\* the outcome o of a mutation that passed validation is routed by the two tokens
Routed(op, o, p, s, q) ==
  /\ (o.req.kind # "none") <=> (token # NULL /\ csrfToken # NULL)
  /\ IF token # NULL /\ csrfToken # NULL
     THEN o.req = RequestOf(op, p, s, q) /\ o.store = store /\ o.cartItem = cartItem
     ELSE LocallyApplied(op, o.store, store, p, s, q) /\ o.cartItem = o.store

\* C9: an add, update or remove that passes validation sends a remote request if and
\* only if the access token and the CSRF token are both present at the call; with
\* either absent it sends nothing and applies the mutation to the local cart (add:
\* existing + requested; update: set, or delete the line when <= 0, the product entry
\* going with its last size; remove: delete with the same cleanup).
C9_RoutingByBothTokens ==
  \A p \in ClaimPids, s \in ClaimSizes, q \in ClaimQtys :
    /\ ExpectedError("add", p, s, q) = "none"
       => Routed("add", addCartItem(p, s, q), p, s, q)
    /\ ExpectedError("update", p, s, q) = "none"
       => Routed("update", updateCartItem(p, s, q), p, s, q)
    /\ ExpectedError("remove", p, s, q) = "none"
       => Routed("remove", removeCartItem(p, s), p, s, q)

\* the access token is present and the CSRF token is not, and a mutation has gone to
\* the local cart
C9_Witness ==
  /\ token # NULL /\ csrfToken = NULL
  /\ products = Catalog
  /\ storeFrom = "guest" /\ DOMAIN store # {}

(* ---- C10 ---- *)
\* C10: a failed remote operation leaves the authoritative cart as it is: the step
\* that handles the failed response of an add, update, remove, fetch or merge request
\* does not change it, and neither does the step that handles a successful merge
\* response when the fetch it then issues fails.
C10_FailureLeavesCartUnchanged ==
  [][ \A i \in 1..Len(inflight) :
        /\ (inflight[i].res = "failed" /\ Delivered(i)) => cartItem' = cartItem
        /\ (/\ inflight[i].kind = "merge" /\ inflight[i].res = "ok"
            /\ DeliveredAndSent(i)
            /\ Newest.kind = "get" /\ Newest.res = "failed")
           => cartItem' = cartItem
    ]_vars

(* ---- C11 ---- *)
\* C11: logout leaves the authoritative cart empty, the local store empty and the
\* token null, and sends no request (the remote cart is not touched); and with the
\* token null every add, update and remove that passes validation sends no request.
C11_LogoutReturnsToGuest ==
  /\ logout.cartItem = EmptyCart
  /\ logout.store = EmptyCart
  /\ logout.token = NULL
  /\ logout.req = NoReq
  /\ token = NULL
     => \A p \in ClaimPids, s \in ClaimSizes, q \in ClaimQtys :
          /\ addCartItem(p, s, q).req = NoReq
          /\ updateCartItem(p, s, q).req = NoReq
          /\ removeCartItem(p, s).req = NoReq

\* logout has run in a session that left lines in the remote cart: the token is null,
\* store and authoritative cart are empty, the remote cart is not
C11_Witness ==
  /\ token = NULL /\ csrfToken # NULL
  /\ DOMAIN remote # {}
  /\ store = EmptyCart /\ cartItem = EmptyCart
  /\ storeFrom = "empty"
  /\ inflight = <<>>

(* ---- C12 ---- *)
\* C12: the local cart survives a page reload: the step that re-initialises the
\* application (the product list, loaded before, is empty again) leaves the local
\* cart store holding what it held.
C12_GuestCartSurvivesReload ==
  [][ (products # {} /\ products' = {}) => store' = store ]_vars

(* ---- C13 ---- *)
\* C13: the local store is used on the guest route only: it never holds lines put
\* there by the handler of a remote response (fetch, add, update, remove), and the
\* payload a mergeCart would send consists of lines written on the guest route.
C13_StoreOnlyInGuestMode ==
  /\ storeFrom = "remote" => DOMAIN store = {}
  /\ mergeCart.req.kind = "merge" => storeFrom = "guest"

(* ---- C14 ---- *)
\* C14: with a fixed catalog, after any sequence of guest-mode addItem, updateItem and
\* removeItem calls from the empty cart, every line's quantity is at most the stock of
\* its product.
C14_GuestQuantityWithinStock ==
  \A l \in LinesOf(cartItem) : cartItem[l[1]][l[2]] <= Stock(l[1])

(* ---- C15 ---- *)
\* C15: every line present in the authoritative cart has a quantity of at least 1:
\* after any sequence of guest-mode addItem, updateItem and removeItem calls with
\* arbitrary integer quantities, and in the cart a successful fetch builds.
C15_QuantityAtLeastOne ==
  /\ \A l \in LinesOf(cartItem) : cartItem[l[1]][l[2]] >= 1
  /\ \A i \in 1..Len(inflight) :
       (inflight[i].kind = "get" /\ inflight[i].res = "ok")
       => LET c == getCartDataThen(inflight[i], "fail").cartItem
          IN \A l \in LinesOf(c) : c[l[1]][l[2]] >= 1

(* ---- C16 ---- *)
\* C16: in every reachable state each line of the authoritative cart refers to a
\* product of the current in-memory product list and to a size of that product,
\* also after a remote fetch or merge and after the product list is loaded again.
C16_LinesReferToCatalog ==
  \A l \in LinesOf(cartItem) : l[1] \in products /\ l[2] \in Sizes(l[1])

C18_MissingTokenReported ==
  ~Authenticated(token, csrfToken)
  => /\ getCartData.req = NoReq /\ mergeCart.req = NoReq
     /\ getCartData.store = store /\ getCartData.cartItem = cartItem
     /\ mergeCart.store = store /\ mergeCart.cartItem = cartItem
     /\ getCartData.level = "error"
     /\ mergeCart.level = "error"

(* ---- C19 ---- *)
\* C19: every request the storefront and the admin client send with a bearer
\* Authorization header carries an X-CSRF-Token header that is neither missing nor
\* null.
C19_BearerRequestsCarryCsrf ==
  \A h \in CartRequestHeaders \cup fetchProfile \cup fetchProducts("t") \cup fetchOrder("t") :
    h.XCsrfToken \notin {ABSENT, NULL}

(* ---- C20 ---- *)
\* the value of one line: price times quantity if the product is in the product list,
\* nothing otherwise
LineValue(p, s) == IF p \in products THEN Price(p) * Qty(cartItem, p, s) ELSE 0

\* the cart {A: {M: 2}, B: {L: 1}}
C20Cart == SetLine(SetLine(EmptyCart, "A", "M", 2), "B", "L", 1)

\* C20: getCartAmount is the sum over the lines of the cart of price times quantity,
\* a line whose product is not in the product list counting for nothing; the cart
\* {A: {M: 2}, B: {L: 1}} with prices 100 and 50 amounts to 250, and to 200 once B is
\* gone from the cart or from the product list.
C20_AmountIsSumOfLines ==
  /\ getCartAmount = LineValue("A", "M") + LineValue("A", "L")
                     + LineValue("B", "M") + LineValue("B", "L")
                     + LineValue("X", "M") + LineValue("X", "L")
  /\ (cartItem = C20Cart /\ products = {"A", "B"}) => getCartAmount = 250
  /\ (cartItem = C20Cart /\ products = {"A"}) => getCartAmount = 200
  /\ (cartItem = DelLine(C20Cart, "B", "L") /\ "A" \in products) => getCartAmount = 200

C20_Witness ==
  /\ cartItem = C20Cart
  /\ products = {"A"}
  /\ getCartAmount = 200

(* ---- C21 ---- *)
\* C21: a failed cart request, whether it fails as a thrown error or as a response
\* with success=false, makes its handler show one error message and send no further
\* request; a call sends at most one request.
C21_FailureSurfacedOnce ==
  /\ \A i \in 1..Len(inflight) : \A how \in Failures :
       inflight[i].res = "failed"
       => /\ Then(inflight[i], how).level = "error"
          /\ Then(inflight[i], how).req = NoReq
  /\ \A p \in ClaimPids, s \in ClaimSizes, q \in ClaimQtys :
       /\ addCartItem(p, s, q).req.kind \in {"none", "add"}
       /\ updateCartItem(p, s, q).req.kind \in {"none", "update"}
       /\ removeCartItem(p, s).req.kind \in {"none", "remove"}
  /\ getCartData.req.kind \in {"none", "get"}
  /\ mergeCart.req.kind \in {"none", "merge"}

(* ---- C22 ---- *)
\* the product satisfies every filter that is switched on
SatisfiesFilters(id) ==
  LET item == Product(id)
      f == collection
      text == toLowerCase(trim(f.search))
  IN /\ (f.showSearch /\ trim(f.search) # <<>>)
        => (includes(toLowerCase(item.name), text) \/ includes(toLowerCase(item.description), text))
     /\ f.selectedCategories # {} => item.category \in f.selectedCategories
     /\ f.selectedSubCategories # {} => item.subCategory \in f.selectedSubCategories
     /\ item.price >= f.priceRange.min
     /\ AtMost(item.price, f.priceRange.max)
     /\ item.averageRating >= f.minRating
     /\ f.inStockOnly => item.stock > 0

ViewIds == {filteredProducts[i]._id : i \in 1..Len(filteredProducts)}

\* C22: the catalog view holds exactly the products of the list that satisfy all the
\* active filters, each once; with minRating 4 and in-stock-only every product shown
\* has a rating of at least 4 and is in stock; under the default sort key the view is
\* in descending order of rating.
C22_ViewIsFilteredList ==
  /\ ViewIds = {products[i] : i \in 1..Len(products)} \cap {id \in ViewCatalog : SatisfiesFilters(id)}
  /\ Cardinality(ViewIds) = Len(filteredProducts)
  /\ (collection.minRating = 4 /\ collection.inStockOnly)
     => \A i \in 1..Len(filteredProducts) :
          filteredProducts[i].averageRating >= 4 /\ filteredProducts[i].stock > 0
  /\ collection.sortType = "relevant"
     => \A i, j \in 1..Len(filteredProducts) :
          i < j => filteredProducts[i].averageRating >= filteredProducts[j].averageRating

C22_Witness ==
  /\ collection.minRating = 4
  /\ collection.inStockOnly
  /\ collection.sortType = "relevant"
  /\ collection.selectedCategories = {}
  /\ collection.selectedSubCategories = {}
  /\ collection.priceRange = [min |-> 0, max |-> INFINITY]
  /\ ~collection.showSearch
  /\ products = <<"P", "Q", "R">>
  /\ filteredProducts = <<Product("R"), Product("P")>>

(* ---- C23 ---- *)
\* the response as it would be with the cart in the other encoding
Encoded(r, shape) == [r EXCEPT !.shape = shape]

\* C23: for every successful response to an add, update or remove that carries a
\* cart, in the encoding it has and in the other one, the handler leaves as the cart
\* exactly the cart of the response.
C23_ResponseCartAdopted ==
  \A i \in 1..Len(inflight) : \A shape \in {"object", "array"} : \A how \in Failures :
    (inflight[i].res = "ok" /\ inflight[i].kind \in {"add", "update", "remove"}
       /\ inflight[i].shape # "none")
    => Then(Encoded(inflight[i], shape), how).cartItem = inflight[i].cart

Alphabet == <<"a", "b", "c", "e", "g", "p", "t">>
Rank(c) == CHOOSE i \in 1..Len(Alphabet) : Alphabet[i] = ToLower(c)

RECURSIVE NameBefore(_, _)
NameBefore(n1, n2) ==
  IF n2 = <<>> THEN FALSE
  ELSE IF n1 = <<>> THEN TRUE
  ELSE IF Rank(Head(n1)) # Rank(Head(n2)) THEN Rank(Head(n1)) < Rank(Head(n2))
  ELSE NameBefore(Tail(n1), Tail(n2))

\* a may stand before b under the sort key, tie-breaks included
MayPrecede(sortType, a, b) ==
  CASE sortType = "low-high" -> a.price <= b.price
    [] sortType = "high-low" -> a.price >= b.price
    [] sortType = "newest" ->
         a.date > b.date \/ (a.date = b.date /\ ~NameBefore(b.name, a.name))
    [] OTHER ->
         \/ a.averageRating > b.averageRating
         \/ (a.averageRating = b.averageRating /\ a.date >= b.date)

\* C25: the view is ordered by the chosen key ('relevant': rating descending, then date
\* descending; 'low-high': price ascending; 'high-low': price descending; 'newest':
\* date descending, then name), and it is the same whatever the order of the product
\* list it is computed from.
C25_SortedWithTieBreaks ==
  /\ \A i, j \in 1..Len(filteredProducts) :
       i < j => MayPrecede(collection.sortType, filteredProducts[i], filteredProducts[j])
  /\ \A list \in Orders(ViewCatalog) :
       filteredProductsOf(list, collection) = filteredProducts

(* ---- C26 ---- *)
\* C26: whenever a failed answer carries a message, the message the handler shows is
\* that message: for the cart requests of an authenticated session, for the password
\* update of the profile page (shown to a session with a token), for the forgot-password
\* and the email verification requests.
C26_ServerMessageVerbatim ==
  \A r \in FailedAnswers :
    r.message # NULL
    => /\ Authenticated(token, csrfToken)
          => /\ getCartDataShows(r) = r.message
             /\ addCartItemShows(r) = r.message
             /\ updateCartItemShows(r) = r.message
             /\ removeCartItemShows(r) = r.message
             /\ mergeCartShows(r) = r.message
       /\ token # NULL => handleUpdatePasswordShows(r) = r.message
       /\ handleForgotPasswordShows(r) = r.message
       /\ verifyEmailShows(r) = r.message

(* ---- C27 ---- *)
\* C27: a response that is handled after logout (the token is null: requests are sent
\* only with a token, and only logout takes it away) while the cart and the local
\* store are empty leaves both empty.
C27_LateResponseAfterLogout ==
  [][ \A i \in 1..Len(inflight) :
        (/\ Delivered(i)
         /\ token = NULL /\ store = EmptyCart /\ cartItem = EmptyCart)
        => store' = EmptyCart /\ cartItem' = EmptyCart
    ]_vars

(* ---- C28 ---- *)
\* C28: a session without a token gets a token only by a login (the step that writes
\* the cookie): re-initialising the application does not bring a token back.
C28_LogoutDurable ==
  [][ (token = NULL /\ token' # NULL) => cookies' # cookies ]_vars

TypedValues ==
  {<<>>, <<"a", "b", "c">>, <<"-", "1">>, <<"0">>, <<"3">>, <<"1", "x">>}
NumericValues == {<<"-", "1">>, <<"0">>, <<"3">>}

\* C30: for every entry of the cart page: no control calls updateCartItem with a
\* quantity below 1; a typed 0 calls removeCartItem; a negative or non-numeric text
\* calls nothing; '-' asks for max(0, q-1) and '+', enabled only below the stock, for
\* min(stock, q+1); neither button asks for more than the stock.
C30_QuantityControls ==
  \A item \in cartItemList :
    LET minus == minusButton(item)
        plus == plusButton(item)
    IN /\ \A value \in TypedValues :
            LET call == handleQuantityChange(item.productId, item.size, value)
            IN /\ call.fn = "updateCartItem" => call.quantity >= 1
               /\ value = <<"0">> => call.fn = "removeCartItem"
               /\ (value \notin NumericValues \/ value = <<"-", "1">>) => call.fn = "none"
       /\ minus.fn = "updateCartItem" => minus.quantity >= 1
       /\ minus.fn # "none" /\ minus.quantity = Max(0, item.quantity - 1)
       /\ minus.quantity <= item.stock
       /\ ~plusDisabled(item)
          => /\ plus.fn = "updateCartItem"
             /\ plus.quantity = Min(item.stock, item.quantity + 1)
             /\ plus.quantity <= item.stock
       /\ plusDisabled(item) <=> item.quantity >= item.stock

====
